---- MODULE Spec2Model ----
(***************************************************************************)
(* A model of folly/experimental/io/IoUringBackend.cpp: the registered     *)
(* descriptor table (FdRegistry), the entry pool, the ring lifecycle       *)
(* (constructor, destructor, cleanup) and the submit / cancel / completion *)
(* protocol of IoUringBackend.                                             *)
(***************************************************************************)
EXTENDS Integers, Sequences, FiniteSets, TLC

\* ------------------------------------------------------------------ bounds
\* Largest table size n given to the FdRegistry constructor.
MaxRecords == 2
\* Largest descriptor value handed to FdRegistry::alloc (descriptors 3..MaxFd).
MaxFd == 4

\* Largest capacity, maxSubmit and maxGet given to the IoUringBackend constructor.
MaxCapacity == 1
MaxMaxSubmit == 2
MaxMaxGet == 2
\* Most operations (queued requests, filled slots, kernel-held polls, unreaped
\* completions, active events) the callers keep outstanding at once.
MaxOps == 3
\* Most submits the kernel fails with an error other than busy in one run.
MaxSubmitErrors == 1
\* Width in bits kept of the size_t counter numIoCbInUse_ (it wraps modulo 2^width).
SizeTBits == 6
\* Threads that call isAvailable, and most calls each of them makes.
MaxThreads == 2
MaxCalls == 2

\* nullptr, and the "empty" descriptor value -1 of files_ and fd_.
NULL == -1

\* errno values: the kernel's busy result, and the error a failed submit reports.
EBUSY == 16
EAGAIN == 11

VARIABLES
  fdRegistry_,   \* the FdRegistry object: inUse_, records_, free_, and the kernel's table
  fdHeld,        \* records handed out by alloc and not yet freed down to count zero
  fdLast,        \* the last FdRegistry call and what it returned
  pc,            \* where the thread owning the backend is
  backend,       \* the IoUringBackend object's fields
  kernel,        \* ioRing_: ring_fd, the submission ring, the polls the kernel holds, the completion ring
  call,          \* locals of the member function being executed
  ghost,         \* history: entries handed out, and what the last call did
  once           \* isAvailable's statics (initFlag, sAvailable) and the threads calling it

fdVars == <<fdRegistry_, fdHeld, fdLast>>
ioVars == <<pc, backend, kernel, call, ghost>>
vars == <<fdRegistry_, fdHeld, fdLast, pc, backend, kernel, call, ghost, once>>

\* ------------------------------------------------------------ FdRegistry
Range(s) == {s[i] : i \in DOMAIN s}

\* FdRegistrationRecord as FdRegistry's constructor leaves it (records_(n)).
FdRegistrationRecord == [idx_ |-> 0, fd_ |-> NULL, count_ |-> 0]

\* FdRegistry::FdRegistry(ioRing, n): files_(n, -1), inUse_(n), records_(n);
\* kfiles is the kernel's registered table, empty until register_files succeeds.
FdRegistry(n) ==
  [inUse_   |-> n,
   files_   |-> [i \in 0 .. n - 1 |-> NULL],
   records_ |-> [i \in 0 .. n - 1 |-> FdRegistrationRecord],
   free_    |-> <<>>,
   kfiles   |-> <<>>]

\* An init that leaves the free list unbuilt.
InitFreeList_NoBuild(reg, i, n) == reg

\* The loop of init: records_[i].idx_ = i; free_.push_front(records_[i]), i = 0..size-1.
RECURSIVE InitFreeList(_, _, _)
InitFreeList(reg, i, n) ==
  IF i >= n THEN reg
  ELSE InitFreeList(
         [reg EXCEPT !.records_[i].idx_ = i, !.free_ = <<i>> \o reg.free_],
         i + 1, n)

\* An init that builds the free list whatever io_uring_register_files returned.
FdRegistry_init_BuildAnyway(reg, registerOk) ==
  IF reg.inUse_ # 0
  THEN [reg |-> InitFreeList(reg, 0, reg.inUse_),
        ret |-> IF registerOk THEN 0 ELSE -1, kcalls |-> 1]
  ELSE [reg |-> reg, ret |-> 0, kcalls |-> 0]

\* FdRegistry::init(); registerOk: io_uring_register_files returned 0; kcalls: the
\* kernel calls init made.
FdRegistry_init(reg, registerOk) ==
  IF reg.inUse_ # 0
  THEN IF registerOk
       THEN [reg |-> InitFreeList([reg EXCEPT !.kfiles = reg.files_], 0, reg.inUse_),
             ret |-> 0, kcalls |-> 1]
       ELSE [reg |-> reg, ret |-> -1, kcalls |-> 1]
  ELSE [reg |-> reg, ret |-> 0, kcalls |-> 0]

\* The success path of alloc: ret.fd_ = fd; ret.count_ = 1; free_.pop_front().
AllocTake_NoPop(reg, r, fd) ==
  [reg EXCEPT !.records_[r].fd_ = fd, !.records_[r].count_ = 1,
              !.kfiles[reg.records_[r].idx_] = fd]

AllocTake(reg, r, fd) ==
  [reg EXCEPT !.records_[r].fd_ = fd, !.records_[r].count_ = 1,
              !.kfiles[reg.records_[r].idx_] = fd,
              !.free_ = Tail(reg.free_)]

\* An alloc that stores the descriptor in the head record before the kernel update.
FdRegistry_alloc_WriteFirst(reg, fd, updateOk) ==
  IF reg.free_ = <<>>
  THEN [reg |-> reg, ret |-> NULL]
  ELSE LET r == Head(reg.free_) IN
       IF ~updateOk
       THEN [reg |-> [reg EXCEPT !.records_[r].fd_ = fd], ret |-> NULL]
       ELSE [reg |-> AllocTake(reg, r, fd), ret |-> r]

\* FdRegistry::alloc(fd); updateOk: io_uring_register_files_update returned 1.
FdRegistry_alloc(reg, fd, updateOk) ==
  IF reg.free_ = <<>>
  THEN [reg |-> reg, ret |-> NULL]
  ELSE LET r == Head(reg.free_) IN
       IF ~updateOk
       THEN [reg |-> reg, ret |-> NULL]
       ELSE [reg |-> AllocTake(reg, r, fd), ret |-> r]

\* The count-reached-zero branch of free: fd_ = -1, the kernel update (which
\* changes the kernel's table only when it succeeds), free_.push_front(*record).
FreeReclaim_NoPush(reg, r, updateOk) ==
  [reg EXCEPT !.records_[r].fd_ = NULL,
              !.kfiles = IF updateOk
                         THEN [reg.kfiles EXCEPT ![reg.records_[r].idx_] = NULL]
                         ELSE reg.kfiles]

FreeReclaim(reg, r, updateOk) ==
  [reg EXCEPT !.records_[r].fd_ = NULL,
              !.kfiles = IF updateOk
                         THEN [reg.kfiles EXCEPT ![reg.records_[r].idx_] = NULL]
                         ELSE reg.kfiles,
              !.free_ = <<r>> \o reg.free_]

\* A free that puts the record back only when the kernel update succeeded.
FdRegistry_free_LeakOnFailure(reg, record, updateOk) ==
  IF record = NULL
  THEN [reg |-> reg, ret |-> FALSE]
  ELSE LET dec == [reg EXCEPT !.records_[record].count_ = @ - 1] IN
       IF dec.records_[record].count_ = 0
       THEN [reg |-> IF updateOk THEN FreeReclaim(dec, record, updateOk)
                     ELSE [dec EXCEPT !.records_[record].fd_ = NULL],
             ret |-> updateOk]
       ELSE [reg |-> dec, ret |-> FALSE]

\* FdRegistry::free(record); record is NULL or a record index.
FdRegistry_free(reg, record, updateOk) ==
  IF record = NULL
  THEN [reg |-> reg, ret |-> FALSE]
  ELSE LET dec == [reg EXCEPT !.records_[record].count_ = @ - 1] IN
       IF dec.records_[record].count_ = 0
       THEN [reg |-> FreeReclaim(dec, record, updateOk), ret |-> updateOk]
       ELSE [reg |-> dec, ret |-> FALSE]

\* ------------------------------------------------------------- entry pool
\* numIoCbInUse_ is a size_t: arithmetic on it wraps.
SizeMod == 2 ^ SizeTBits

\* An IoSqe as new IoSqe[numEntries_] leaves it.
IoSqe == [next_ |-> NULL, event_ |-> FALSE, backendCb_ |-> "none"]

\* numEntries_ as the base class leaves it before the constructor doubles it.
PollIoBackend_numEntries(capacity, maxSubmit) == maxSubmit

\* for (i = 2; i < numEntries_; i++) { entries_[i-1].next_ = &entries_[i]; ...backendCb_ = processPollIoCb }
RECURSIVE LinkEntries(_, _, _)
LinkEntries(entries, i, n) ==
  IF i >= n THEN entries
  ELSE LinkEntries([entries EXCEPT ![i - 1].next_ = i,
                                   ![i - 1].backendCb_ = "processPollIoCb"],
                   i + 1, n)

\* The constructor's entry array: entry 0 is the timer entry, the rest are chained.
BuildEntries(n) ==
  LET fresh  == [i \in 0 .. n - 1 |-> IoSqe]
      timer  == [fresh EXCEPT ![0].backendCb_ = "processTimerIoCb"]
      linked == LinkEntries(timer, 2, n)
  IN [linked EXCEPT ![n - 1].backendCb_ = "processPollIoCb"]

\* The state operators below take and return st = [b, k, g]: the backend object,
\* the ring, and the history.

\* The free list as the sequence of entries reached from entry e through next_,
\* followed for at most `fuel` links (a list that has a cycle never ends).
RECURSIVE FreeListFrom(_, _, _)
FreeListFrom(b, e, fuel) ==
  IF e = NULL \/ fuel = 0 THEN <<>>
  ELSE <<e>> \o FreeListFrom(b, b.entries_[e].next_, fuel - 1)

FreeList(b) == FreeListFrom(b, b.freeHead_, b.numEntries_ + 1)

\* allocIoCb(): pop the free-list head; NULL when the list is empty. The popped
\* entry keeps its next_, which nothing reads before releaseIoCb overwrites it:
\* the model keeps it only while the entry is still reachable from freeHead_ (a
\* list an entry was pushed on twice), and otherwise stores NULL for it.
allocIoCb(st) ==
  IF st.b.freeHead_ = NULL
  THEN [st |-> st, ret |-> NULL]
  ELSE LET e    == st.b.freeHead_
           head == st.b.entries_[e].next_
           dead == e \notin Range(FreeListFrom(st.b, head, st.b.numEntries_ + 1))
       IN
       [st  |-> [st EXCEPT !.b.freeHead_ = head,
                           !.b.entries_[e].next_ = IF dead THEN NULL ELSE @,
                           !.b.numIoCbInUse_ = (@ + 1) % SizeMod,
                           !.g.reissued = @ \/ (e \in st.g.held),
                           !.g.held = @ \cup {e}],
        ret |-> e]

\* releaseIoCb(entry): push the entry onto the free-list head.
releaseIoCb(st, e) ==
  [st EXCEPT !.b.numIoCbInUse_ = (@ - 1) % SizeMod,
             !.b.entries_[e].next_ = st.b.freeHead_,
             !.b.entries_[e].event_ = FALSE,
             !.b.freeHead_ = e,
             !.g.releasedTimer = @ \/ (e = 0),
             !.g.held = @ \ {e}]

\* numIoCbInUse()
numIoCbInUse(st) == st.b.numIoCbInUse_

\* The pool's free count: its entries (all but the timer entry) less those in use.
PoolFree(b) == (b.numEntries_ - 1 - b.numIoCbInUse_) % SizeMod

\* ------------------------------------------------------------- the ring
\* The ring's submission-queue size: the kernel rounds 2 * maxSubmit_ up to a power of two.
RECURSIVE RoundUpPow2(_, _)
RoundUpPow2(n, p) == IF p >= n THEN p ELSE RoundUpPow2(n, 2 * p)

\* io_uring_get_sqe / allocSubmissionEntry: NULL when every slot is filled.
SqFull(k) == Len(k.sq) >= k.sqEntries

\* prepPollAdd / prepPollRemove followed by io_uring_sqe_set_data(sqe, this).
PollAddSqe(e) == [op |-> "poll_add", user_data |-> e, addr |-> NULL]
PollRemoveSqe(e, target) == [op |-> "poll_remove", user_data |-> e, addr |-> target]

\* The kernel taking the filled slots in order: a poll-add is held until its
\* descriptor is ready; a poll-remove completes at once, and completes the poll
\* it finds (as cancelled) before itself.
RECURSIVE KernelAccept(_, _)
KernelAccept(k, sqes) ==
  IF sqes = <<>> THEN k
  ELSE LET s == Head(sqes) IN
       KernelAccept(
         IF s.op = "poll_add"
         THEN [k EXCEPT !.polls[s.user_data] = @ + 1]
         ELSE IF k.polls[s.addr] > 0
              THEN [k EXCEPT !.polls[s.addr] = @ - 1,
                             !.cq = @ \o <<s.addr, s.user_data>>]
              ELSE [k EXCEPT !.cq = Append(@, s.user_data)],
         Tail(sqes))

\* io_uring_submit succeeding: every filled slot goes to the kernel.
IoUringSubmit(st) ==
  [st EXCEPT !.k = KernelAccept([st.k EXCEPT !.sq = <<>>], st.k.sq)]

\* processTimerIoCb / processPollIoCb, the callbacks stored in backendCb_.
BackendCb(st, e) ==
  IF st.b.entries_[e].backendCb_ = "processTimerIoCb"
  THEN [st EXCEPT !.b.processTimers_ = TRUE]
  ELSE IF st.b.entries_[e].event_
       THEN [st EXCEPT !.b.activeEvents_ = Append(@, e)]
       ELSE releaseIoCb(st, e)

\* The loop condition of getActiveEvents: while (cqe && (i < maxGet_)).
GetLoopCond_OffByOne(cqe, i, maxGet) == cqe /\ i <= maxGet

GetLoopCond(cqe, i, maxGet) == cqe /\ i < maxGet

\* The loop of getActiveEvents: i++, the callback, io_uring_cqe_seen, peek again.
RECURSIVE GetLoop(_, _)
GetLoop(st, i) ==
  IF GetLoopCond(st.k.cq # <<>>, i, st.b.maxGet_)
  THEN LET sqe  == Head(st.k.cq)
           cb   == BackendCb(st, sqe)
           seen == [cb EXCEPT !.k.cq = Tail(@), !.g.callbacks = @ + 1]
       IN GetLoop(seen, i + 1)
  ELSE [st |-> st, ret |-> i]

\* getActiveEvents(waitForEvents); with WAIT the caller has waited for a completion.
getActiveEvents(st, mode) ==
  LET before == Len(st.k.cq)
      res    == GetLoop([st EXCEPT !.g.callbacks = 0], 0)
  IN [res.st EXCEPT !.g.callbacks = 0,
                    !.g.lastGet = [mode |-> mode, avail |-> before, ret |-> res.ret,
                                   callbacks |-> res.st.g.callbacks,
                                   left |-> Len(res.st.k.cq)]]

\* The loop condition of cleanup's drain: while (numIoCbInUse()).
CleanupLoopCond_Early(n) == n > 1

CleanupLoopCond(n) == n # 0

\* cleanup's first two loops: pop and release every entry of a list.
RECURSIVE ReleaseAll(_, _)
ReleaseAll(st, list) ==
  IF list = <<>> THEN st
  ELSE ReleaseAll(releaseIoCb(st, Head(list)), Tail(list))

CleanupLists(st) ==
  LET s1 == [ReleaseAll(st, st.b.submitList_) EXCEPT !.b.submitList_ = <<>>]
  IN [ReleaseAll(s1, s1.b.activeEvents_) EXCEPT !.b.activeEvents_ = <<>>]

\* Descriptors callers register.
Fds == 3 .. MaxFd

\* -------------------------------------------------------- initial states
\* No member function is running.
NoCall ==
  [fn |-> "none", wait |-> FALSE, i |-> 0, ret |-> 0, num |-> 0, mode |-> "DONT_WAIT",
   n0 |-> 0, calls |-> <<>>, rentry |-> NULL, freeBefore |-> 0, freed |-> 0]

NoLast == [fn |-> "none"]
NoGet == [mode |-> "none", avail |-> 0, ret |-> 0, callbacks |-> 0, left |-> 0]

\* The object before its constructor has run (ioRing_ zeroed by memset).
NewBackend ==
  [capacity_ |-> 0, maxSubmit_ |-> 0, maxGet_ |-> 0, numEntries_ |-> 0,
   entries_ |-> <<>>, freeHead_ |-> NULL, numIoCbInUse_ |-> 0,
   submitList_ |-> <<>>, activeEvents_ |-> <<>>,
   processTimers_ |-> FALSE, shuttingDown_ |-> FALSE]

NewRing ==
  [ring_fd |-> 0, open |-> FALSE, sqEntries |-> 0, sq |-> <<>>, polls |-> <<>>, cq |-> <<>>]

\* The threads of the process, and isAvailable's statics before the first call:
\* sAvailable = true, initFlag not yet used; no thread is inside isAvailable.
Threads == 1 .. MaxThreads

NewOnce ==
  [initFlag |-> "init", sAvailable |-> TRUE, trials |-> 0,
   at |-> [t \in Threads |-> "out"], rets |-> [t \in Threads |-> <<>>]]

NewGhost ==
  [held |-> {}, reissued |-> FALSE, releasedTimer |-> FALSE, exits |-> 0, errors |-> 0,
   callbacks |-> 0, lastGet |-> NoGet, last |-> NoLast,
   atCleanup |-> [started |-> FALSE, submitList |-> 0, activeEvents |-> 0,
                  inKernel |-> 0, drained |-> 0]]

IoInitState ==
  /\ pc = "new"
  /\ backend = NewBackend
  /\ kernel = NewRing
  /\ call = NoCall
  /\ ghost = NewGhost
  /\ once = NewOnce

FdInitState ==
  /\ fdHeld = {}
  /\ fdLast = [op |-> "ctor", arg |-> NULL, ret |-> NULL, ok |-> TRUE, inited |-> "no",
               kcalls |-> 0]

\* An FdRegistry of any size, on its own.
InitFd ==
  /\ \E n \in 0 .. MaxRecords : fdRegistry_ = FdRegistry(n)
  /\ FdInitState
  /\ IoInitState

\* A backend about to be constructed.
Init ==
  /\ fdRegistry_ = FdRegistry(0)
  /\ FdInitState
  /\ IoInitState

\* ------------------------------------------------------ FdRegistry calls
\* A call of init(), made once (the backend's constructor calls it once).
FdInit ==
  /\ fdLast.inited = "no"
  /\ \E registerOk \in BOOLEAN :
       LET res == FdRegistry_init(fdRegistry_, registerOk) IN
       /\ fdRegistry_' = res.reg
       /\ fdLast' = [op |-> "init", arg |-> NULL, ret |-> res.ret, ok |-> registerOk,
                     inited |-> IF res.ret = 0 THEN "ok" ELSE "failed",
                     kcalls |-> res.kcalls]
  /\ UNCHANGED <<fdHeld, ioVars, once>>

\* A call of alloc(fd).
FdAlloc ==
  /\ \E fd \in Fds, updateOk \in BOOLEAN :
       LET res == FdRegistry_alloc(fdRegistry_, fd, updateOk) IN
       /\ fdRegistry_' = res.reg
       /\ fdHeld' = IF res.ret = NULL THEN fdHeld ELSE fdHeld \cup {res.ret}
       /\ fdLast' = [fdLast EXCEPT !.op = "alloc", !.arg = fd, !.ret = res.ret,
                                   !.ok = updateOk]
  /\ UNCHANGED <<ioVars, once>>

\* A call of free(record) with nullptr or a record the caller holds.
FdFree ==
  /\ \E record \in fdHeld \cup {NULL}, updateOk \in BOOLEAN :
       LET res == FdRegistry_free(fdRegistry_, record, updateOk) IN
       /\ fdRegistry_' = res.reg
       /\ fdHeld' = IF record # NULL /\ res.reg.records_[record].count_ = 0
                    THEN fdHeld \ {record} ELSE fdHeld
       /\ fdLast' = [fdLast EXCEPT !.op = "free", !.arg = record,
                                   !.ret = IF res.ret THEN 1 ELSE 0, !.ok = updateOk]
  /\ UNCHANGED <<ioVars, once>>

NextFd == FdInit \/ FdAlloc \/ FdFree

SpecFd == InitFd /\ [][NextFd]_vars

\* ------------------------------------------------------- backend calls
St == [b |-> backend, k |-> kernel, g |-> ghost]

\* The step's result: the state st, the thread at newpc with locals newcall.
Set(st, newpc, newcall) ==
  /\ backend' = st.b
  /\ kernel' = st.k
  /\ ghost' = [st.g EXCEPT !.last = IF @ = ghost.last THEN NoLast ELSE @,
                           !.lastGet = IF @ = ghost.lastGet THEN NoGet ELSE @]
  /\ pc' = newpc
  /\ call' = newcall
  /\ once' = once

\* A failed CHECK: the process aborts; num is the submit result a CHECK_EQ compared.
Abort(st, why, num) ==
  Set([st EXCEPT !.g.last = [fn |-> "abort", why |-> why, during |-> call.fn,
                             num |-> num]],
      "aborted", NoCall)

RECURSIVE SumPolls(_, _)
SumPolls(polls, n) == IF n = 0 THEN 0 ELSE polls[n - 1] + SumPolls(polls, n - 1)

\* Operations outstanding, the timer's aside: queued, filled, held by the kernel,
\* completed and unreaped, active.
OpsOutstanding(st) ==
  Len(st.b.submitList_) + Len(SelectSeq(st.k.sq, LAMBDA s : s.user_data # 0))
    + SumPolls(st.k.polls, st.b.numEntries_) - st.k.polls[0]
    + Len(SelectSeq(st.k.cq, LAMBDA e : e # 0)) + Len(st.b.activeEvents_)

\* addTimerFd's slot: allocSubmissionEntry() and timerEntry_->prepPollAdd(...).
AddTimerFd(st) == [st EXCEPT !.k.sq = Append(@, PollAddSqe(0))]

\* A descriptor number io_uring_queue_init_params leaves in ring_fd: the lowest
\* free one of the process, 3 when the standard descriptors are open, 0 when
\* descriptor 0 is closed.
RingFd == 3
RingFds == {0, RingFd}

\* IoUringBackend::IoUringBackend up to the submit of addTimerFd(), with
\* useRegisteredFds drawn from `flags` and the descriptor the kernel gives the ring
\* drawn from `fds`.
ConstructFrom(flags, fds) ==
  /\ pc = "new"
  /\ \E capacity \in 1 .. MaxCapacity, maxSubmit \in 1 .. MaxMaxSubmit,
        maxGet \in 1 .. MaxMaxGet, useRegisteredFds \in flags, fd \in fds,
        queueInitOk \in BOOLEAN, registerOk \in BOOLEAN :
       LET reg0 == FdRegistry(IF useRegisteredFds THEN capacity ELSE 0)
           base == [backend EXCEPT !.capacity_ = capacity, !.maxSubmit_ = maxSubmit,
                                   !.maxGet_ = maxGet,
                                   !.numEntries_ = PollIoBackend_numEntries(capacity, maxSubmit)]
           n    == 2 * base.numEntries_
           b1   == [base EXCEPT !.numEntries_ = n, !.entries_ = BuildEntries(n),
                                !.freeHead_ = 1]
           k1   == [ring_fd |-> fd, open |-> TRUE, sqEntries |-> RoundUpPow2(2 * maxSubmit, 1),
                    sq |-> <<>>, polls |-> [e \in 0 .. n - 1 |-> 0], cq |-> <<>>]
           fdi  == FdRegistry_init(reg0, registerOk)
       IN IF ~queueInitOk
          THEN /\ Set([b |-> base, k |-> kernel, g |-> ghost], "unavailable", NoCall)
               /\ fdRegistry_' = reg0
               /\ UNCHANGED <<fdHeld, fdLast>>
          ELSE /\ Set(AddTimerFd([b |-> b1, k |-> k1, g |-> ghost]), "submit",
                      [NoCall EXCEPT !.fn = "ctor"])
               /\ fdRegistry_' = IF useRegisteredFds THEN fdi.reg ELSE reg0
               /\ fdLast' = IF useRegisteredFds
                            THEN [op |-> "init", arg |-> NULL, ret |-> fdi.ret,
                                  ok |-> registerOk,
                                  inited |-> IF fdi.ret = 0 THEN "ok" ELSE "failed",
                                  kcalls |-> fdi.kcalls]
                            ELSE fdLast
               /\ UNCHANGED fdHeld

ConstructWith(flags) == ConstructFrom(flags, {RingFd})

\* The constructor as the entry protocol is explored with: useRegisteredFds = false,
\* its default (the registry takes no part in IoUringBackend.cpp's entry protocol),
\* and a ring whose descriptor is positive.
Construct == ConstructWith({FALSE})

\* cleanup() up to its drain loop: if (ioRing_.ring_fd > 0) release both lists.
CleanupBegin(st) ==
  IF st.k.ring_fd > 0
  THEN CleanupLists(
         [st EXCEPT !.g.atCleanup =
            [started |-> TRUE, submitList |-> Len(st.b.submitList_),
             activeEvents |-> Len(st.b.activeEvents_),
             inKernel |-> SumPolls(st.k.polls, st.b.numEntries_), drained |-> 0]])
  ELSE st

\* submitList's test for submitting a full batch: static_cast<size_t>(i) == maxSubmit_.
BatchFull_Late(i, maxSubmit) == i = maxSubmit + 1

BatchFull(i, maxSubmit) == i = maxSubmit

\* Whether submitList submits with submitBusyCheckAndWait: only after the last
\* request (ioCbs.empty()), and only when waitForEvents == WAIT.
UseSubmitAndWait_EveryBatch(last, mode) == mode = "WAIT"

UseSubmitAndWait(last, mode) == last /\ mode = "WAIT"

\* submitList's loop from one submit to the next: pop a request, take a slot
\* (CHECK(sqe)), prepPollAdd, i++, until the queue is empty or the batch is full.
RECURSIVE FillBatch(_, _, _)
FillBatch(st, i, mode) ==
  LET entry == Head(st.b.submitList_)
      rest  == Tail(st.b.submitList_)
      st1   == [st EXCEPT !.b.submitList_ = rest,
                          !.k.sq = Append(@, PollAddSqe(entry))]
  IN IF SqFull(st.k)
     THEN [st |-> [st EXCEPT !.b.submitList_ = rest], i |-> i, wait |-> FALSE,
           check |-> FALSE]
     ELSE IF rest = <<>>
          THEN [st |-> st1, i |-> i + 1, wait |-> UseSubmitAndWait(TRUE, mode),
                check |-> TRUE]
          ELSE IF BatchFull(i + 1, st.b.maxSubmit_)
               THEN [st |-> st1, i |-> i + 1, wait |-> UseSubmitAndWait(FALSE, mode),
                     check |-> TRUE]
               ELSE FillBatch(st1, i + 1, mode)

\* submitList at the submit that ends a batch, or aborted by CHECK(sqe).
SubmitBatch(st, c) ==
  LET f == FillBatch(st, c.i, c.mode) IN
  IF f.check
  THEN Set(f.st, "submit", [c EXCEPT !.i = f.i, !.wait = f.wait])
  ELSE Set([f.st EXCEPT !.g.last = [fn |-> "abort", why |-> "CHECK(sqe)",
                                    during |-> "submitList", num |-> 0]],
           "aborted", NoCall)

\* cancelOne after its submit: if (ret < 0) releaseIoCb(rentry).
CancelOneResult_Leak(st, rentry, ret) == st

CancelOneResult(st, rentry, ret) ==
  IF ret < 0 THEN releaseIoCb(st, rentry) ELSE st

\* What the caller of submitBusyCheck / submitBusyCheckAndWait does with the result num.
Return(st, num) ==
  CASE call.fn = "ctor" ->
         \* if (!addTimerFd()) { cleanup(); entries_.reset(); throw NotAvailable(...) }
         IF num = 1
         THEN Set(st, "idle", NoCall)
         ELSE Set(CleanupBegin(st), "cleanup", [call EXCEPT !.num = num])
    [] call.fn = "addTimerFd" ->
         Set(st, "idle", NoCall)
    [] call.fn = "cancelOne" ->
         \* if (ret < 0) releaseIoCb(rentry); return ret;
         LET st1 == CancelOneResult(st, call.rentry, num) IN
         Set([st1 EXCEPT !.g.last = [fn |-> "cancelOne", ret |-> num,
                                     rentry |-> call.rentry,
                                     freeBefore |-> call.freeBefore,
                                     freed |-> call.freed,
                                     freeAfter |-> PoolFree(st1.b)]],
             "idle", NoCall)
    [] call.fn = "submitList" ->
         \* CHECK_EQ(num, i); ret += i; and i = 0 after a full batch
         IF num # call.i
         THEN Abort(st, "CHECK_EQ(num, i)", num)
         ELSE LET ret   == call.ret + call.i
                  calls == Append(call.calls, [num |-> num, wait |-> call.wait])
              IN IF st.b.submitList_ = <<>>
                 THEN Set([st EXCEPT !.g.last = [fn |-> "submitList", n |-> call.n0,
                                                 mode |-> call.mode, calls |-> calls,
                                                 ret |-> ret,
                                                 left |-> Len(st.b.submitList_)]],
                          "idle", NoCall)
                 ELSE SubmitBatch(st, [call EXCEPT !.ret = ret, !.i = 0,
                                                   !.calls = calls, !.wait = FALSE])

\* The loop condition of submitBusyCheck[AndWait]: while ((num = io_uring_submit(...)) == -EBUSY).
SubmitLoopCond_Never(num) == FALSE

SubmitLoopCond(num) == num = -EBUSY

\* submitBusyCheck[AndWait]: io_uring_submit returned -EBUSY (nothing was taken);
\* drain without blocking and submit again. For cancelOne the call's record keeps
\* the number of entries the drain's callbacks released.
SubmitBusy ==
  /\ pc = "submit"
  /\ IF SubmitLoopCond(-EBUSY)
     THEN LET st == getActiveEvents(St, "DONT_WAIT") IN
          Set(st, "submit",
              IF call.fn = "cancelOne"
              THEN [call EXCEPT !.freed = (@ + PoolFree(st.b) - PoolFree(backend)) % SizeMod]
              ELSE call)
     ELSE Return(St, -EBUSY)
  /\ UNCHANGED fdVars

\* submitBusyCheck[AndWait]: the kernel took every filled slot.
SubmitOk ==
  /\ pc = "submit"
  /\ LET num == Len(kernel.sq) IN
     IF call.wait
     THEN Set(IoUringSubmit(St), "submit_wait", [call EXCEPT !.num = num])
     ELSE Return(IoUringSubmit(St), num)
  /\ UNCHANGED fdVars

\* submitBusyCheck[AndWait]: io_uring_submit failed with an error other than -EBUSY
\* (-EAGAIN); the filled slots stay in the submission ring.
SubmitError ==
  /\ pc = "submit"
  /\ ghost.errors < MaxSubmitErrors
  /\ Return([St EXCEPT !.g.errors = @ + 1], -EAGAIN)
  /\ UNCHANGED fdVars

\* io_uring_submit_and_wait(&ioRing_, 1) returning once a completion is there.
SubmitWaited ==
  /\ pc = "submit_wait"
  /\ kernel.cq # <<>>
  /\ Return(St, call.num)
  /\ UNCHANGED fdVars

\* submitList(ioCbs, waitForEvents) called on submitList_, up to its first submit.
SubmitListCall ==
  /\ pc = "idle"
  /\ \E mode \in {"WAIT", "DONT_WAIT"} :
       IF backend.submitList_ = <<>>
       THEN Set([St EXCEPT !.g.last = [fn |-> "submitList", n |-> 0, mode |-> mode,
                                       calls |-> <<>>, ret |-> 0, left |-> 0]],
                "idle", NoCall)
       ELSE SubmitBatch(St, [NoCall EXCEPT !.fn = "submitList", !.mode = mode,
                                           !.n0 = Len(backend.submitList_)])
  /\ UNCHANGED fdVars

\* The entries a caller may cancel: handed out, with an event, and in neither list.
CancelTargets ==
  {e \in ghost.held : /\ backend.entries_[e].event_
                      /\ e \notin Range(backend.submitList_)
                      /\ e \notin Range(backend.activeEvents_)}

\* cancelOne(ioCb) up to its submit.
CancelOne ==
  /\ pc = "idle"
  /\ OpsOutstanding(St) < MaxOps
  /\ \E ioCb \in CancelTargets :
       LET a == allocIoCb(St) IN
       IF a.ret = NULL
       THEN Set([a.st EXCEPT !.g.last = [fn |-> "cancelOne", ret |-> 0, rentry |-> NULL,
                                         freeBefore |-> PoolFree(backend),
                                         freed |-> 0,
                                         freeAfter |-> PoolFree(backend)]],
                "idle", NoCall)
       ELSE IF SqFull(kernel)
            THEN Abort(a.st, "CHECK(sqe)", 0)
            ELSE Set([a.st EXCEPT !.k.sq = Append(@, PollRemoveSqe(a.ret, ioCb))],
                     "submit",
                     [NoCall EXCEPT !.fn = "cancelOne", !.rentry = a.ret,
                                    !.freeBefore = PoolFree(backend)])
  /\ UNCHANGED fdVars

\* getActiveEvents(waitForEvents) called by the event loop; io_uring_wait_cqe
\* returns when a completion is there.
GetActiveEventsCall ==
  /\ pc = "idle"
  /\ \E mode \in {"WAIT", "DONT_WAIT"} :
       /\ mode = "WAIT" => kernel.cq # <<>>
       /\ Set(getActiveEvents(St, mode), "idle", NoCall)
  /\ UNCHANGED fdVars

\* A caller adding a request: an entry from the pool, bound to an event, queued.
EventAdd ==
  /\ pc = "idle"
  /\ OpsOutstanding(St) < MaxOps
  /\ backend.freeHead_ # NULL
  /\ LET a == allocIoCb(St) IN
     Set([a.st EXCEPT !.b.entries_[a.ret].event_ = TRUE,
                      !.b.submitList_ = Append(@, a.ret)],
         "idle", NoCall)
  /\ UNCHANGED fdVars

\* The event loop handing the active events to their owners and releasing the entries.
ProcessActiveEvents ==
  /\ pc = "idle"
  /\ backend.activeEvents_ # <<>>
  /\ Set([ReleaseAll(St, backend.activeEvents_) EXCEPT !.b.activeEvents_ = <<>>],
         "idle", NoCall)
  /\ UNCHANGED fdVars

\* The event loop arming the timer again after the timer callback ran: addTimerFd().
RearmTimer ==
  /\ pc = "idle"
  /\ backend.processTimers_
  /\ ~SqFull(kernel)
  /\ Set(AddTimerFd([St EXCEPT !.b.processTimers_ = FALSE]), "submit",
         [NoCall EXCEPT !.fn = "addTimerFd"])
  /\ UNCHANGED fdVars

\* ~IoUringBackend: shuttingDown_ = true; cleanup() up to its drain loop.
Destroy ==
  /\ pc = "idle"
  /\ Set(CleanupBegin([St EXCEPT !.b.shuttingDown_ = TRUE]), "cleanup",
         [NoCall EXCEPT !.fn = "dtor"])
  /\ UNCHANGED fdVars

\* One turn of cleanup's drain: io_uring_wait_cqe, releaseIoCb(sqe), io_uring_cqe_seen.
CleanupWait ==
  /\ pc = "cleanup"
  /\ kernel.ring_fd > 0
  /\ CleanupLoopCond(numIoCbInUse(St))
  /\ kernel.cq # <<>>
  /\ LET sqe == Head(kernel.cq) IN
     Set([releaseIoCb(St, sqe) EXCEPT !.k.cq = Tail(@),
                                      !.g.atCleanup.drained = @ + 1],
         "cleanup", call)
  /\ UNCHANGED fdVars

\* The end of cleanup: io_uring_queue_exit and ring_fd = -1 (all of cleanup is
\* skipped unless ring_fd > 0); then the constructor resets entries_ and throws
\* NotAvailable, or the destructor returns.
CleanupExit ==
  /\ pc = "cleanup"
  /\ kernel.ring_fd > 0 => ~CleanupLoopCond(numIoCbInUse(St))
  /\ LET st == IF kernel.ring_fd > 0
               THEN [St EXCEPT !.k.ring_fd = -1, !.k.open = FALSE, !.g.exits = @ + 1]
               ELSE St
     IN IF call.fn = "ctor"
        THEN Set([st EXCEPT !.b.entries_ = <<>>], "unavailable", NoCall)
        ELSE Set(st, "destroyed", NoCall)
  /\ UNCHANGED fdVars

\* The kernel completing a poll it holds (the descriptor is ready, the timer fired).
KernelComplete ==
  /\ pc \notin {"new", "aborted", "unavailable", "destroyed"}
  /\ kernel.ring_fd > 0
  /\ \E e \in DOMAIN kernel.polls :
       /\ kernel.polls[e] > 0
       /\ kernel' = [kernel EXCEPT !.polls[e] = @ - 1, !.cq = Append(@, e)]
  /\ UNCHANGED <<pc, backend, call, ghost, fdVars, once>>

Next ==
  \/ Construct
  \/ SubmitBusy
  \/ SubmitOk
  \/ SubmitError
  \/ SubmitWaited
  \/ SubmitListCall
  \/ CancelOne
  \/ GetActiveEventsCall
  \/ EventAdd
  \/ ProcessActiveEvents
  \/ RearmTimer
  \/ Destroy
  \/ CleanupWait
  \/ CleanupExit
  \/ KernelComplete

Spec == Init /\ [][Next]_vars

\* ------------------------------------- the registry inside a constructor
\* The constructor with useRegisteredFds true or false, and a ring descriptor of 0
\* or more; its member fdRegistry_ is a registry no call was made on.
ConstructReg == fdLast.op = "ctor" /\ ConstructFrom(BOOLEAN, RingFds)

\* FdRegistry calls on a registry of its own, or on the registry of a constructed backend.
RegInit == pc = "new" /\ FdInit

RegAlloc == pc \in {"new", "idle"} /\ FdAlloc

RegFree == pc \in {"new", "idle"} /\ FdFree

NextReg ==
  \/ ConstructReg
  \/ RegInit
  \/ RegAlloc
  \/ RegFree
  \/ SubmitBusy
  \/ SubmitOk
  \/ SubmitError
  \/ Destroy
  \/ CleanupExit

SpecReg == InitFd /\ [][NextReg]_vars

\* ----------------------------------------------------------- isAvailable
\* folly::call_once(initFlag, f) as seen by a caller: it runs f when the flag is
\* fresh, waits while another caller runs f, and returns at once when f has run.
call_once_NoWait(initFlag) == IF initFlag = "init" THEN "run" ELSE "skip"

call_once(initFlag) ==
  CASE initFlag = "init" -> "run"
    [] initFlag = "running" -> "wait"
    [] initFlag = "done" -> "skip"

OnceStep(newonce) == once' = newonce /\ UNCHANGED <<fdVars, ioVars>>

\* A thread calls isAvailable().
IsAvailableCall ==
  \E t \in Threads :
    /\ once.at[t] = "out"
    /\ Len(once.rets[t]) < MaxCalls
    /\ OnceStep([once EXCEPT !.at[t] = "call_once"])

\* call_once starts the lambda in this thread: try { IoUringBackend backend(1024, 128); ...
CallOnceRun ==
  \E t \in Threads :
    /\ once.at[t] = "call_once"
    /\ call_once(once.initFlag) = "run"
    /\ OnceStep([once EXCEPT !.at[t] = "trial", !.initFlag = "running",
                             !.trials = @ + 1])

\* call_once finds that the lambda has run.
CallOnceSkip ==
  \E t \in Threads :
    /\ once.at[t] = "call_once"
    /\ call_once(once.initFlag) = "skip"
    /\ OnceStep([once EXCEPT !.at[t] = "return"])

\* The trial construction and, when it succeeded, the destruction at the end of the
\* try block, run by the thread inside the lambda.
InTrial == \E t \in Threads : once.at[t] = "trial"

TrialConstruct == InTrial /\ Construct

TrialSubmitBusy == InTrial /\ SubmitBusy

TrialSubmitOk == InTrial /\ SubmitOk

TrialSubmitError == InTrial /\ SubmitError

TrialDestroy == InTrial /\ Destroy

TrialCleanupExit == InTrial /\ CleanupExit

\* The lambda ends: catch (const NotAvailable&) { sAvailable = false; }, and
\* call_once marks the flag.
CallOnceEnd ==
  \E t \in Threads :
    /\ once.at[t] = "trial"
    /\ pc \in {"unavailable", "destroyed"}
    /\ OnceStep([once EXCEPT !.at[t] = "return", !.initFlag = "done",
                             !.sAvailable = IF pc = "unavailable" THEN FALSE ELSE @])

\* return sAvailable;
IsAvailableReturn ==
  \E t \in Threads :
    /\ once.at[t] = "return"
    /\ OnceStep([once EXCEPT !.at[t] = "out", !.rets[t] = Append(@, once.sAvailable)])

NextAvail ==
  \/ IsAvailableCall
  \/ CallOnceRun
  \/ CallOnceSkip
  \/ TrialConstruct
  \/ TrialSubmitBusy
  \/ TrialSubmitOk
  \/ TrialSubmitError
  \/ TrialDestroy
  \/ TrialCleanupExit
  \/ CallOnceEnd
  \/ IsAvailableReturn

SpecAvail == Init /\ [][NextAvail]_vars

\* ======================================================== the claims
Constructed == pc \notin {"new", "unavailable"}

NoDuplicates(seq) == \A i, j \in DOMAIN seq : i # j => seq[i] # seq[j]

\* n / m rounded up.
Ceil(n, m) == (n + m - 1) \div m

RECURSIVE SumNums(_)
SumNums(calls) == IF calls = <<>> THEN 0 ELSE Head(calls).num + SumNums(Tail(calls))

\* C1: whenever cleanup() has closed the ring (io_uring_queue_exit, ring_fd = -1),
\* it did so in a state where numIoCbInUse() is zero; nothing runs after the close,
\* so the closed state is the state of the close.
C1_ClosedOnlyWithNoneInUse ==
  kernel.ring_fd = -1 => numIoCbInUse(St) = 0

\* C1's case: a destructor that found requests in the submit-list, entries in
\* active-events and polls in the kernel, drained a completion and closed the ring.
C1_Witness ==
  /\ pc = "destroyed"
  /\ kernel.ring_fd = -1
  /\ ghost.atCleanup.submitList >= 1
  /\ ghost.atCleanup.activeEvents >= 1
  /\ ghost.atCleanup.drained >= 1

\* C2: destruction finishes, with no entry in use and the ring closed. The kernel
\* delivers a completion for every operation it holds, so destruction can only fail
\* to finish where cleanup's drain waits (entries still counted in use) while no
\* completion is in the completion ring and the kernel holds no operation.
C2_DestructionFinishes ==
  /\ pc = "destroyed" => (numIoCbInUse(St) = 0 /\ kernel.ring_fd = -1)
  /\ (pc = "cleanup" /\ CleanupLoopCond(numIoCbInUse(St)))
       => (kernel.cq # <<>> \/ \E e \in DOMAIN kernel.polls : kernel.polls[e] > 0)

\* C3: the ring is closed at most once, and when it is closed the submit-list and
\* the active-events list are empty and the kernel holds no operation (poll, cancel
\* or timer) of an entry of this backend.
C3_ClosedOnceAfterDrain ==
  /\ ghost.exits <= 1
  /\ kernel.ring_fd = -1 =>
       /\ backend.submitList_ = <<>>
       /\ backend.activeEvents_ = <<>>
       /\ \A e \in DOMAIN kernel.polls : kernel.polls[e] = 0

\* C4: alloc never returns an entry it returned before and that was not released
\* since; no entry is twice in the free list, and no handed-out entry is in it.
C4_NoDoubleIssue ==
  Constructed =>
    /\ ~ghost.reissued
    /\ NoDuplicates(FreeList(backend))
    /\ Range(FreeList(backend)) \cap ghost.held = {}

\* C5: the timer entry (index 0) is never in the free list and never passed to release.
C5_TimerEntryNeverReleased ==
  Constructed =>
    /\ ~ghost.releasedTimer
    /\ 0 \notin Range(FreeList(backend))

\* Records of the table that are in use: handed out by alloc, not yet freed to count zero.
FdFreePlusInUse == Len(fdRegistry_.free_) + Cardinality(fdHeld)

\* C6 as stated: after init, whatever the kernel calls returned, free-list size
\* plus in-use count equals the capacity n.
C6_Original ==
  fdLast.inited # "no" => FdFreePlusInUse = fdRegistry_.inUse_

\* C6 amended: after an init whose registration succeeded (or that had nothing to
\* register), free-list size plus in-use count equals n; after an init whose
\* registration failed, the free list is empty and no record is in use.
C6_FreePlusInUseAfterInit ==
  /\ fdLast.inited = "ok" => FdFreePlusInUse = fdRegistry_.inUse_
  /\ fdLast.inited = "failed" => (fdRegistry_.free_ = <<>> /\ fdHeld = {})

\* C6's case: after a successful init, a free whose kernel update failed has put a
\* record back while another record is still in use.
C6_Witness ==
  /\ fdLast.inited = "ok"
  /\ fdLast.op = "free" /\ fdLast.arg # NULL /\ ~fdLast.ok
  /\ fdHeld # {}
  /\ fdRegistry_.free_ # <<>>

\* C7: every alloc that returns a record returns one no caller holds, with
\* reference count 1 and the requested descriptor stored in it.
C7_AllocNeverReissues ==
  [][(fdLast'.op = "alloc" /\ fdLast'.ret # NULL) =>
       /\ fdLast'.ret \notin fdHeld
       /\ fdRegistry_'.records_[fdLast'.ret].count_ = 1
       /\ fdRegistry_'.records_[fdLast'.ret].fd_ = fdLast'.arg]_vars

\* C7's case: alloc has just returned a record while another record is held.
C7_Witness ==
  /\ fdLast.op = "alloc" /\ fdLast.ret # NULL
  /\ Cardinality(fdHeld) >= 2
  /\ fdRegistry_.records_[fdLast.ret].count_ = 1

\* C8 as stated: in every state a record is in the free list iff its count is zero.
C8_Original ==
  \A r \in DOMAIN fdRegistry_.records_ :
    (r \in Range(fdRegistry_.free_)) <=> (fdRegistry_.records_[r].count_ = 0)

\* C8 amended: a record in the free list always has count zero; after an init whose
\* registration succeeded the converse holds too; before init and after a failed
\* init the free list is empty (and every count is zero).
C8_FreeIffCountZeroAfterInit ==
  /\ \A r \in Range(fdRegistry_.free_) : fdRegistry_.records_[r].count_ = 0
  /\ fdLast.inited = "ok" => C8_Original
  /\ fdLast.inited # "ok" =>
       /\ fdRegistry_.free_ = <<>>
       /\ \A r \in DOMAIN fdRegistry_.records_ : fdRegistry_.records_[r].count_ = 0

\* C8's case: after a successful init, a free has put a record back while another
\* record is in use.
C8_Witness ==
  /\ fdLast.inited = "ok"
  /\ fdLast.op = "free" /\ fdLast.arg # NULL
  /\ fdHeld # {}
  /\ \E r \in Range(fdRegistry_.free_) : r = fdLast.arg

\* What a submitList call that returned did: n requests, the submit calls' reports.
SubmitListReturned == ghost.last.fn = "submitList"

SubmitListBatches ==
  /\ \A c \in DOMAIN ghost.last.calls : ghost.last.calls[c].num <= backend.maxSubmit_
  /\ SumNums(ghost.last.calls) = ghost.last.n
  /\ ghost.last.ret = ghost.last.n
  /\ ghost.last.left = 0

C10_GetActiveEventsBounded ==
  ghost.lastGet.mode # "none" =>
    /\ ghost.lastGet.ret <= backend.maxGet_
    /\ ghost.lastGet.ret = ghost.lastGet.callbacks
    /\ ghost.lastGet.left = ghost.lastGet.avail - ghost.lastGet.ret
    /\ ghost.lastGet.avail > backend.maxGet_ =>
         ghost.lastGet.left = ghost.lastGet.avail - backend.maxGet_

\* C10's case: a blocking getActiveEvents found more than maxGet completions.
C10_Witness ==
  /\ ghost.lastGet.mode = "WAIT"
  /\ ghost.lastGet.avail > backend.maxGet_
  /\ ghost.lastGet.ret = backend.maxGet_
  /\ ghost.lastGet.left >= 1

\* A submit attempt that reported busy: the thread is in a submit loop, and the
\* step neither handed the filled slots to the kernel (which adds a poll or posts
\* a completion) nor failed with an error, nor was it the kernel posting a completion.
BusyAttempt ==
  /\ pc = "submit"
  /\ kernel'.sq = kernel.sq
  /\ kernel'.polls = kernel.polls
  /\ ghost'.errors = ghost.errors
  /\ Len(kernel'.cq) <= Len(kernel.cq)

\* What one non-blocking drain leaves of the completion ring.
AfterOneDrain(cq, maxGet) ==
  SubSeq(cq, (IF Len(cq) < maxGet THEN Len(cq) ELSE maxGet) + 1, Len(cq))

\* C11: submitBusyCheck and submitBusyCheckAndWait never return -EBUSY: no caller
\* (the constructor's addTimerFd, cancelOne, submitList) sees it as the submit
\* result, and every submit attempt that reported busy is followed by one
\* non-blocking drain and another attempt in the same call.
C11_BusyNeverReturned ==
  /\ [](/\ ghost.last.fn = "cancelOne" => ghost.last.ret # -EBUSY
        /\ ghost.last.fn = "abort" => ghost.last.num # -EBUSY
        /\ (pc = "cleanup" /\ call.fn = "ctor") => call.num # -EBUSY
        /\ \A c \in DOMAIN call.calls : call.calls[c].num # -EBUSY)
  /\ [][BusyAttempt =>
          /\ pc' = "submit"
          /\ call' = [call EXCEPT !.freed = call'.freed]
          /\ kernel'.cq = AfterOneDrain(kernel.cq, backend.maxGet_)]_vars

\* C11's case: cancelOne's submit reported busy, the drain consumed a completion,
\* and the thread is about to submit again.
C11_Witness ==
  /\ pc = "submit"
  /\ call.fn = "cancelOne"
  /\ ghost.lastGet.mode = "DONT_WAIT"
  /\ ghost.lastGet.ret >= 1

\* C12: the trial construction is attempted at most once, and exactly once before
\* any call returns; no call returns before it has finished; every call returns
\* the same value, false exactly when the trial raised NotAvailable.
C12_TrialOnceSameAnswer ==
  /\ once.trials <= 1
  /\ \A t \in Threads : once.at[t] = "return" => once.initFlag = "done"
  /\ \A t \in Threads : \A i \in DOMAIN once.rets[t] :
       /\ once.initFlag = "done"
       /\ once.trials = 1
       /\ once.rets[t][i] = (pc # "unavailable")
       /\ \A u \in Threads : \A j \in DOMAIN once.rets[u] :
            once.rets[u][j] = once.rets[t][i]

\* C12's case: every thread has called isAvailable more than once, and the trial
\* raised NotAvailable.
C12_Witness ==
  /\ \A t \in Threads : Len(once.rets[t]) >= 2
  /\ once.rets[1][1] = FALSE
  /\ pc = "unavailable"

\* A cancelOne call that has returned.
CancelOneReturned == ghost.last.fn = "cancelOne"

\* C13 as stated: every cancelOne call allocates an entry for the cancellation and
\* submits; when the submit fails the free count is what it was before the call.
C13_Original ==
  CancelOneReturned =>
    /\ ghost.last.rentry # NULL
    /\ ghost.last.ret < 0 => ghost.last.freeAfter = ghost.last.freeBefore

\* C13 amended: a cancelOne call that finds the pool empty returns 0 and fills no
\* slot; any other call takes the free-list head, fills one slot with a poll-remove
\* that carries the cancellation entry and refers to the target, and submits; it
\* returns the submit result (negative on error, otherwise the count of slots
\* submitted), and when that is negative the cancellation entry is the head of the
\* free list again and the free count is what it was before the call plus the
\* entries released by the callbacks of the call's busy drains.
C13_CancelOneReleasesOnFailure ==
  /\ [](CancelOneReturned =>
          IF ghost.last.rentry = NULL
          THEN /\ ghost.last.ret = 0
               /\ ghost.last.freeAfter = ghost.last.freeBefore
          ELSE /\ ghost.last.ret # 0
               /\ ghost.last.ret < 0 =>
                    /\ backend.freeHead_ = ghost.last.rentry
                    /\ ghost.last.freeAfter =
                         (ghost.last.freeBefore + ghost.last.freed) % SizeMod)
  /\ [][(pc = "idle" /\ pc' = "idle" /\ ghost'.last.fn = "cancelOne"
            /\ ghost'.last # ghost.last) =>
          /\ backend.freeHead_ = NULL
          /\ backend' = backend
          /\ kernel' = kernel]_vars
  /\ [][(pc = "idle" /\ pc' = "submit" /\ call'.fn = "cancelOne") =>
          /\ call'.rentry = backend.freeHead_
          /\ kernel'.sq = Append(kernel.sq, kernel'.sq[Len(kernel'.sq)])
          /\ kernel'.sq[Len(kernel'.sq)].op = "poll_remove"
          /\ kernel'.sq[Len(kernel'.sq)].user_data = call'.rentry
          /\ kernel'.sq[Len(kernel'.sq)].addr \in CancelTargets]_vars
  /\ [][(pc = "submit" /\ call.fn = "cancelOne" /\ pc' = "idle") =>
          /\ ghost'.last.fn = "cancelOne"
          /\ ghost'.last.ret = IF ghost'.errors # ghost.errors
                               THEN -EAGAIN ELSE Len(kernel.sq)]_vars

\* C13's case: a cancelOne call that took an entry from the pool has returned a
\* negative submit result after a busy drain that released another entry.
C13_Witness ==
  /\ CancelOneReturned
  /\ ghost.last.rentry # NULL
  /\ ghost.last.ret < 0
  /\ ghost.last.freed >= 1
  /\ ghost.last.freeAfter = ghost.last.freeBefore + 1

\* C14: free(record) with a record returns whether the kernel update succeeded, and
\* also when it returns false the record is in the free list afterwards, with the
\* empty descriptor value and count zero; free(nullptr) returns false.
C14_FreeReclaimsEvenOnFailure ==
  fdLast.op = "free" =>
    IF fdLast.arg = NULL
    THEN fdLast.ret = 0
    ELSE /\ fdLast.ret = (IF fdLast.ok THEN 1 ELSE 0)
         /\ fdLast.arg \in Range(fdRegistry_.free_)
         /\ fdRegistry_.records_[fdLast.arg].fd_ = NULL
         /\ fdRegistry_.records_[fdLast.arg].count_ = 0

\* C14's case: free has returned false because the kernel update failed, and the
\* record is at the head of the free list.
C14_Witness ==
  /\ fdLast.op = "free" /\ fdLast.arg # NULL
  /\ ~fdLast.ok /\ fdLast.ret = 0
  /\ Head(fdRegistry_.free_) = fdLast.arg

\* C15: an alloc that returns null, for an empty free list or a failed kernel
\* update, leaves the registry as it was: free list, records and kernel table.
C15_FailedAllocChangesNothing ==
  [][(fdLast'.op = "alloc" /\ fdLast'.ret = NULL) =>
       /\ fdRegistry_' = fdRegistry_
       /\ fdHeld' = fdHeld]_vars

\* C15's case: alloc has returned null because the kernel update failed while a
\* record was free and another was in use.
C15_Witness ==
  /\ fdLast.op = "alloc" /\ fdLast.ret = NULL /\ ~fdLast.ok
  /\ fdRegistry_.free_ # <<>>
  /\ fdHeld # {}

\* C16: after an init whose registration failed the free list is empty and every
\* alloc returns null; the constructor goes on to arm the timer, and raises
\* NotAvailable only if arming fails; init on a table of capacity zero makes no
\* kernel call and returns 0, and on any other table makes one.
C16_RegistrationFailureDegrades ==
  /\ [](/\ fdLast.inited = "failed" =>
             /\ fdRegistry_.free_ = <<>>
             /\ fdLast.op = "alloc" => fdLast.ret = NULL
             /\ pc = "unavailable" => ghost.errors > 0
        /\ fdLast.op = "init" =>
             IF fdRegistry_.inUse_ = 0
             THEN fdLast.kcalls = 0 /\ fdLast.ret = 0
             ELSE fdLast.kcalls = 1)
  /\ [][(pc = "new" /\ pc' # "new" /\ fdLast'.inited = "failed") =>
          /\ pc' = "submit"
          /\ call'.fn = "ctor"
          /\ kernel'.sq = <<PollAddSqe(0)>>]_vars

\* C16's case: a backend whose registration failed was constructed, its timer is
\* armed, and an alloc on it has returned null.
C16_Witness ==
  /\ pc = "idle"
  /\ fdLast.inited = "failed"
  /\ fdLast.op = "alloc" /\ fdLast.ret = NULL
  /\ kernel.polls[0] = 1

\* C17: the constructor raises NotAvailable only when the ring setup failed or
\* arming the timer failed, and when it has raised no ring is open: the ring was
\* never opened, or cleanup() closed it.
C17_NotAvailableLeavesNoRing ==
  pc = "unavailable" =>
    /\ ~kernel.open
    /\ kernel = NewRing \/ ghost.errors > 0

\* C18: no submit call inside submitList that the kernel accepted reports a count
\* different from the number of slots submitList filled since its previous submit
\* call (CHECK_EQ(num, i) does not fire on an accepted submit).
C18_SubmitCountsMatch ==
  ~(/\ pc = "aborted"
    /\ ghost.last.why = "CHECK_EQ(num, i)"
    /\ ghost.last.num >= 0)

\* C19: inside submitList the blocking submit is used only for the submit after
\* the last request and only with WAIT, hence at most once, and with WAIT it is
\* used there; every submit made while requests remain is non-blocking.
C19_WaitOnlyOnLastSubmit ==
  /\ SubmitListReturned =>
       \A c \in DOMAIN ghost.last.calls :
         ghost.last.calls[c].wait = (c = Len(ghost.last.calls) /\ ghost.last.mode = "WAIT")
  /\ pc = "submit_wait" =>
       (call.fn = "submitList" /\ call.mode = "WAIT" /\ backend.submitList_ = <<>>)
  /\ (pc = "submit" /\ call.fn = "submitList") =>
       /\ call.wait = (backend.submitList_ = <<>> /\ call.mode = "WAIT")
       /\ \A c \in DOMAIN call.calls : ~call.calls[c].wait

\* C19's case: a submitList call with WAIT on more than maxSubmit requests has
\* returned: its batch submit did not block, its last submit did.
C19_Witness ==
  /\ SubmitListReturned
  /\ ghost.last.mode = "WAIT"
  /\ Len(ghost.last.calls) >= 2
  /\ ~ghost.last.calls[1].wait
  /\ ghost.last.calls[Len(ghost.last.calls)].wait

\* C20: an entry in the free list is referenced by no filled submission slot that
\* the kernel has not accepted, and by no operation the kernel holds.
C20_NoEntryInTwoOperations ==
  Constructed =>
    \A e \in Range(FreeList(backend)) :
      /\ \A i \in DOMAIN kernel.sq : kernel.sq[i].user_data # e
      /\ kernel.polls[e] = 0

====
